---- MODULE Spec2Model ----
(***************************************************************************)
(* A model of the response-interception pipeline of nudgelab/abxlab:       *)
(* NudgeLabBrowserEnv (src/nudgelab/browser.py), NudgeLabTask and          *)
(* NudgeLabShopTask (src/nudgelab/task.py) and the intervention functions  *)
(* a configuration can name (src/abxlab/choices, src/nudgelab/choices).    *)
(*                                                                         *)
(* HTML is abstracted to a record [base, norm, ins]:                       *)
(*   base  the cached page the text derives from,                          *)
(*   norm  whether the text went through BeautifulSoup(html, "lxml") and   *)
(*         str(soup) at least once (the round trip re-serialises the       *)
(*         document, so it is not the identity on bytes),                  *)
(*   ins   the tags inserted so far, in insertion order.                   *)
(***************************************************************************)
EXTENDS Integers, Sequences, FiniteSets, TLC

(* ---------------------------- bounds ---------------------------------- *)

MaxChoices == 2

MaxClock == 2

(* ---------------------------- pages ----------------------------------- *)

URLs == {"A", "B", "C", "D", "E"}

Wildcard == "*"

ResourceTypes == {"document", "xhr"}

Pages == {"prodFull", "prodBare", "cat"}

\* Pages that differ in the elements the page-type switch looks at only:
\* p, c and t in a name stand for the product meta tag, the category
\* filter sidebar and the title "One Stop Market".
ClassPages ==
    {"p", "pc", "pt", "pct", "c", "ct", "t",
     "plain", "untitled", "emptyTitle", "pEmptyTitle", "cEmptyTitle"}

\* The DOM markers the page-type switch finds with soup.find and
\* soup.select_one.
Markers(base) ==
    CASE base \in {"prodFull", "prodBare", "p", "pt", "pEmptyTitle"} -> {"product"}
      [] base \in {"cat", "c", "ct", "cEmptyTitle"} -> {"category"}
      [] base \in {"pc", "pct"} -> {"product", "category"}
      [] OTHER -> {}

\* The <title> of the page: none, one without content, or its text.
Title(base) ==
    CASE base = "untitled" -> "absent"
      [] base \in {"emptyTitle", "pEmptyTitle", "cEmptyTitle"} -> "empty"
      [] base \in {"pt", "pct", "ct", "t"} -> "One Stop Market"
      [] OTHER -> "Some Product"

\* soup.title and soup.title.string.strip() == "One Stop Market": a Tag is
\* true whatever its content, and the .string of a tag without content is
\* None, which has no strip.
HomeCheck(base) ==
    IF Title(base) = "absent" THEN [raised |-> FALSE, home |-> FALSE]
    ELSE IF Title(base) = "empty" THEN [raised |-> TRUE, home |-> FALSE]
    ELSE [raised |-> FALSE, home |-> Title(base) = "One Stop Market"]

\* page_utils.get_pagetype(soup).
GetPagetype(base) ==
    IF "product" \in Markers(base) THEN "PRODUCT"
    ELSE IF "category" \in Markers(base) THEN "CATEGORY"
    ELSE IF HomeCheck(base).raised THEN "AttributeError"
    ELSE IF HomeCheck(base).home THEN "HOME"
    ELSE "OTHER"

\* The default rewrite NudgeLabShopTask.process_html picks.
ShopRewrite(base) ==
    IF "product" \in Markers(base) THEN "product_rating"
    ELSE IF "category" \in Markers(base) THEN "category_rating"
    ELSE IF HomeCheck(base).raised THEN "AttributeError"
    ELSE IF HomeCheck(base).home THEN "home_rating"
    ELSE "none"

\* The anchor elements the rewrites look up with soup.find / soup.select.
Anchors(base) ==
    CASE base = "prodFull" -> {"title", "stock", "rating-result", "rating-summary",
                               "price"}
      [] base = "prodBare" -> {"title", "price"}
      [] base = "cat"      -> {"rating-result"}
      [] OTHER             -> {}

\* Number of li.item.product.product-item elements of the page.
Items(base) == IF base = "cat" THEN 2 ELSE 0

RawPage(base) == [base |-> base, norm |-> FALSE, ins |-> <<>>]

NoneHtml == [base |-> "None", norm |-> FALSE, ins |-> <<>>]

\* str(soup) after inserting tag: the text is re-serialised and carries tag.
Insert(html, tag) == [html EXCEPT !.norm = TRUE, !.ins = Append(@, tag)]

Returned(html, kind, meta) ==
    [raised |-> FALSE, ret |-> kind, html |-> html, meta |-> meta]

Raised(html) ==
    [raised |-> TRUE, ret |-> "none", html |-> html, meta |-> "none"]

(* ----------------------- intervention functions ----------------------- *)

Fsub == [module |-> "abxlab.choices.shop.product", name |-> "subtitle", args |-> "value=v"]

Fstock == [module |-> "abxlab.choices.shop.product", name |-> "stock", args |-> "value=v"]

Fcat == [module |-> "nudgelab.choices.shop.category", name |-> "subtitle", args |-> "value=v"]

\* The price function of the nudge's module, with the pair's average price.
Fprice == [module |-> "abxlab.choices.shop.product", name |-> "price", args |-> "value=avg"]

Freview == [module |-> "abxlab.choices.shop.product", name |-> "review_count", args |-> "value=avg"]

Functions == {Fsub, Fstock, Fcat, Fprice, Freview}

\* A function spec of a config whose module does not exist.
Fmissing == [module |-> "nudgelab.choices.shop.missing", name |-> "subtitle", args |-> "value=v"]

\* importlib.import_module(module_name) and getattr(module, func_name)
\* succeed: the module exists and defines the name.
Resolvable(f) == \E g \in Functions : g.module = f.module /\ g.name = f.name

\* abxlab product.subtitle: element = soup.find(div.page-title-wrapper);
\* element.insert_after raises on None.
ProductSubtitle(html) ==
    IF "title" \in Anchors(html.base)
    THEN {Returned(Insert(html, "subtitle"), "tuple", "{}")}
    ELSE {Raised(html)}

\* abxlab product.stock: element = soup.find(div.product-info-stock-sku).
ProductStock(html) ==
    IF "stock" \in Anchors(html.base)
    THEN {Returned(Insert(html, "stock"), "tuple", "{}")}
    ELSE {Raised(html)}

\* abxlab product.price in the pipeline: price = soup.find(span.price);
\* price.string = ... raises on None.
ProductPrice(html) ==
    IF "price" \in Anchors(html.base)
    THEN {Returned(Insert(html, "price"), "tuple", "{}")}
    ELSE {Raised(html)}

\* abxlab product.review_count: both lookups are guarded, it never raises.
ProductReviewCount(html) == {Returned(Insert(html, "review_count"), "tuple", "{}")}

\* nudgelab category.subtitle with product=None: random.choice over the
\* items of the page (IndexError on an empty list); every item is a
\* possible outcome of the unseeded draw.
CategorySubtitle(html) ==
    IF Items(html.base) = 0
    THEN {Raised(html)}
    ELSE {Returned(Insert(html, IF i = 0 THEN "subtitle@0" ELSE "subtitle@1"),
                   "tuple",
                   IF i = 0 THEN "item_index=0" ELSE "item_index=1")
            : i \in 0 .. (Items(html.base) - 1)}

\* func(html_content, **args) for the function a spec names.
Call(f, html) ==
    CASE f = Fsub   -> ProductSubtitle(html)
      [] f = Fstock -> ProductStock(html)
      [] f = Fcat   -> CategorySubtitle(html)
      [] f = Fprice -> ProductPrice(html)
      [] f = Freview -> ProductReviewCount(html)
      [] OTHER      -> {Raised(html)}

(* --------------------------- default rewrites ------------------------- *)

\* nudgelab product.rating: soup.find(div.rating-result)["title"] raises on
\* None, and so does element.insert_after when div.rating-summary is absent.
ProductRating(html) ==
    IF {"rating-result", "rating-summary"} \subseteq Anchors(html.base)
    THEN Returned(Insert(html, "rating"), "str", "none")
    ELSE Raised(html)

\* nudgelab category.rating: a span after every item's rating; a page with
\* no rated item is still re-serialised.
CategoryRating(html) ==
    IF Items(html.base) > 0 /\ "rating-result" \in Anchors(html.base)
    THEN Returned(Insert(html, "rating"), "str", "none")
    ELSE Returned([html EXCEPT !.norm = TRUE], "str", "none")

\* nudgelab.choices.shop.home.rating, imported by task.py.
HomeRating(html) == Returned(Insert(html, "rating"), "str", "none")

TaskKinds == {"NudgeLabTask", "NudgeLabShopTask"}

\* task.process_html(html): the identity for the base task; for the shop
\* task the page-type switch product, category, home, else unchanged.
ProcessHtml(kind, html) ==
    IF kind = "NudgeLabTask" THEN Returned(html, "str", "none")
    ELSE CASE ShopRewrite(html.base) = "product_rating"  -> ProductRating(html)
           [] ShopRewrite(html.base) = "category_rating" -> CategoryRating(html)
           [] ShopRewrite(html.base) = "home_rating"     -> HomeRating(html)
           [] ShopRewrite(html.base) = "AttributeError"  -> Raised(html)
           [] OTHER                                      -> Returned(html, "str", "none")

(* ---------------------------- configuration --------------------------- *)

\* The function lists a choice of the bounded configurations carries.
FunctionLists == {<<Fsub>>, <<Fsub, Fstock>>, <<Fstock, Fsub>>, <<Fcat>>, <<Fmissing>>}

ChoiceUrls == {"A", Wildcard}

Choices == [url : ChoiceUrls, functions : FunctionLists]

ChoiceLists == UNION {[1 .. n -> Choices] : n \in 0 .. MaxChoices}

\* env_config = task_kwargs["config"]: hasChoices is `"choices" in config`.
Configs == [hasChoices : {TRUE}, choices : ChoiceLists]
             \cup {[hasChoices |-> FALSE, choices |-> <<>>]}

\* A guard that takes the choices branch for every config.
ConfigHasChoicesAlways(cfg) == TRUE

\* `"choices" in self.env_config`
ConfigHasChoices(cfg) == cfg.hasChoices

(* ---------------------------- choice resolver ------------------------- *)

\* A resolver that looks for an exact match before any "*" entry.
ResolveChoiceExactFirst(url, choices) ==
    LET exact == {i \in 1 .. Len(choices) : choices[i].url = url}
        wild  == {i \in 1 .. Len(choices) : choices[i].url = Wildcard}
    IN IF exact # {} THEN CHOOSE i \in exact : \A j \in exact : i <= j
       ELSE IF wild # {} THEN CHOOSE i \in wild : \A j \in wild : i <= j
       ELSE 0

\* next(filter(lambda choice: choice["url"] in [request_url, "*"], choices), None)
\* as the index of the selected entry, 0 for None.
ResolveChoice(url, choices) ==
    LET hits == {i \in 1 .. Len(choices) : choices[i].url \in {url, Wildcard}}
    IN IF hits = {} THEN 0 ELSE CHOOSE i \in hits : \A j \in hits : i <= j

(* ------------------------- process_html_content ----------------------- *)

\* The state a run of process_html_content threads through its statements:
\* whether an exception is propagating, html_content, task.nudge_metadata
\* (set is FALSE while the task has no such attribute), the clock behind
\* time.time(), the functions called so far, the resolved choice (0 for
\* None, -1 when the resolver did not run).
Run(raised, html, md, clk, applied, resolved) ==
    [raised |-> raised, html |-> html, md |-> md, clk |-> clk,
     applied |-> applied, resolved |-> resolved]

Throw(r) == [r EXCEPT !.raised = TRUE]

\* time.time(): the clock never goes back.
TimeNow(clk) == {t \in clk .. (clk + 1) : t <= MaxClock}

\* The record appended for one intervention: the function's own metadata
\* plus url, timestamp and function {name, args, module}.
MetadataRecord(url, t, f, meta) ==
    [url |-> url, timestamp |-> t, function |-> f, extra |-> meta]

\* task.nudge_metadata.append(metadata): AttributeError while the task has
\* no nudge_metadata attribute.
AppendMetadata(r, rec) ==
    IF r.md.set
    THEN [r EXCEPT !.md.list = Append(@, rec)]
    ELSE Throw(r)

\* One iteration of `for f in choice["functions"]`: call the function,
\* unpack (html_content, metadata), stamp and append the record.
RunFunction(r, f, url) ==
    IF ~Resolvable(f) THEN {Throw(r)}
    ELSE UNION {
        IF o.raised THEN {Throw(r)}
        ELSE IF o.ret # "tuple"
            THEN {Throw([r EXCEPT !.applied = Append(@, f)])}
        ELSE {AppendMetadata(
                  [r EXCEPT !.html = o.html, !.clk = t, !.applied = Append(@, f)],
                  MetadataRecord(url, t, f, o.meta))
                : t \in TimeNow(r.clk)}
        : o \in Call(f, r.html)}

RECURSIVE RunFunctions(_, _, _)
RunFunctions(rs, fs, url) ==
    IF fs = <<>> THEN rs
    ELSE RunFunctions(
             UNION {IF r.raised THEN {r} ELSE RunFunction(r, Head(fs), url) : r \in rs},
             Tail(fs), url)

RECURSIVE RunChoices(_, _, _)
RunChoices(rs, cs, url) ==
    IF cs = <<>> THEN rs
    ELSE RunChoices(RunFunctions(rs, Head(cs).functions, url), Tail(cs), url)

\* `for choice in choices:` evaluates the name `choices`, which is bound in
\* no scope of process_html_content (the local is `choice`): NameError.
ChoicesIter(cfg, resolved) == [raised |-> TRUE, seq |-> <<>>]

\* process_html_content(html_content, request_url, task): the set of ways
\* a call can end.
ProcessHtmlContent(cached, url, kind, cfg, md, clk) ==
    LET pre == ProcessHtml(kind, cached)
        r0  == Run(FALSE, cached, md, clk, <<>>, -1)
    IN IF pre.raised THEN {Throw(r0)}
       ELSE IF ConfigHasChoices(cfg)
       THEN LET resolved == ResolveChoice(url, cfg.choices)
                r1 == [r0 EXCEPT !.html = pre.html, !.resolved = resolved]
                it == ChoicesIter(cfg, resolved)
            IN IF it.raised THEN {Throw(r1)}
               ELSE RunChoices({r1}, it.seq, url)
       ELSE {[r0 EXCEPT !.html = pre.html]}

(* ------------------------------- cache -------------------------------- *)

CacheFile(html) == [state |-> "file", content |-> html]

CacheAbsent == [state |-> "absent", content |-> NoneHtml]

\* A file that exists but whose read raises (for example bytes that are
\* not UTF-8).
CacheUnreadable == [state |-> "unreadable", content |-> RawPage("undecodable")]

\* The .cache directory the pre-caching pass left behind.
InitCache ==
    [u \in URLs |->
        CASE u = "A" -> CacheFile(RawPage("prodFull"))
          [] u = "B" -> CacheFile(RawPage("prodBare"))
          [] u = "C" -> CacheFile(RawPage("cat"))
          [] u = "D" -> CacheAbsent
          [] OTHER   -> CacheUnreadable]

\* A read that hands back what it got from any file that exists.
GetCachedContentUnchecked(c, url) ==
    IF c[url].state = "absent" THEN NoneHtml ELSE c[url].content

\* get_cached_content(url): the file's text, or None when the file does not
\* exist or the read raises (the exception is logged and swallowed).
GetCachedContent(c, url) ==
    IF c[url].state = "file" THEN c[url].content ELSE NoneHtml

\* The handler's effect on the cache when it also stores what it served.
CacheServedBody(c, url, body) == [c EXCEPT ![url] = CacheFile(body)]

\* A handler that stores a body it changed back under the URL's key.
CacheProcessedBody(c, url, body) ==
    IF body # c[url].content THEN [c EXCEPT ![url] = CacheFile(body)] ELSE c

\* modify_html never calls cache_content: the cache after a request is the
\* cache before it.
CacheAfterRequest(c, url, body) == c

(* --------------------------- route handler ---------------------------- *)

\* request.resource_type not in ["document"]
IsDocumentOrXhr(rtype) == rtype \in {"document", "xhr"}

IsDocument(rtype) == rtype \in {"document"}

FulfillStatus == 200

CacheMissStatus == 500

\* What the live site may have answered when a page was fetched for the
\* cache: requests.get(url) passed raise_for_status(), and only
\* response.text was kept.
OriginResponses ==
    {[status |-> 200,
      headers |-> {"content-type: text/html; charset=utf-8", "cache-control: no-cache"}],
     [status |-> 200,
      headers |-> {"content-type: text/html; charset=UTF-8", "set-cookie: PHPSESSID"}]}

\* A fulfill that sends the content type only.
FulfillHeadersContentTypeOnly == {"content-type: text/html; charset=utf-8"}

\* headers= of route.fulfill on a cache hit.
FulfillHeaders ==
    {"content-type: text/html; charset=utf-8", "cache-control: no-cache"}

\* headers= of route.fulfill on a cache miss.
CacheMissHeaders == {"content-type: text/html; charset=utf-8"}

\* The labeled page built on a cache miss; it names the request URL.
ErrorPage(url) == [base |-> "Cache Miss Error", norm |-> FALSE, ins |-> <<url>>]

\* The body served when process_html_content raised: the html at the point
\* of the raise.
FallbackPartial(cached, r) == r.html

\* except Exception: processed_html = cached_content
FallbackBody(cached, r) == cached

NoResponse ==
    [url |-> "none", rtype |-> "none", kind |-> "none", status |-> 0,
     headers |-> {}, body |-> NoneHtml, cached |-> NoneHtml, cacheRead |-> FALSE,
     processed |-> FALSE, resolved |-> -1, applied |-> <<>>,
     raised |-> FALSE, warned |-> FALSE, appended |-> 0, repeat |-> FALSE]

NoFirst == [set |-> FALSE, url |-> "none", body |-> NoneHtml]

VARIABLES
    env_config,      \* self.env_config, also the task's config
    task_kind,       \* the task entrypoint
    cache,           \* the files of self.cache_dir, by URL
    phase,           \* "new", "running" (handler routed) or "failed"
    has_task,        \* self.task is set
    nudge_metadata,  \* task.nudge_metadata; set is FALSE while unassigned
    persisted,       \* nudge_metadata.yaml in study_dir
    clock,           \* time.time()
    last,            \* the last intercepted request and what the handler did
    first,           \* the first cache-hit document response ever served
    episode_applied, \* the interventions called during the episode
    torn,            \* teardown was invoked on the episode's task
    writes,          \* completed yaml.dump writes of that task's list
    routed,          \* the context routes its requests to modify_html
    steps,           \* the steps of the current reset(), in execution order
    disk,            \* the files of .cache by file key, as the scripts see them
    pc,              \* position of the offline script or function under study
    inp,             \* its inputs
    out              \* its results

main == <<env_config, task_kind, cache, phase, has_task, nudge_metadata,
          persisted, clock, last, first, episode_applied, torn, writes,
          routed, steps>>

side == <<disk, pc, inp, out>>

vars == <<main, side>>

NoInput == [kind |-> "none"]

NoOutput == [kind |-> "none"]

NoMetadata == [set |-> FALSE, list |-> <<>>]

NoFileYet == [state |-> "nofile", list |-> <<>>]

\* task.nudge_metadata right after self.task_entrypoint(seed=seed, ...):
\* __init__ assigns viewport, slow_mo, timeout, config, study_dir and no
\* nudge_metadata.
NewTaskMetadata == NoMetadata

Init ==
    /\ env_config \in Configs
    /\ task_kind \in TaskKinds
    /\ cache = InitCache
    /\ phase = "new"
    /\ has_task = FALSE
    /\ nudge_metadata = NoMetadata
    /\ persisted = NoFileYet
    /\ clock = 0
    /\ last = NoResponse
    /\ first = NoFirst
    /\ episode_applied = <<>>
    /\ torn = FALSE
    /\ writes = 0
    /\ routed = FALSE
    /\ steps = <<>>
    /\ disk = {}
    /\ pc = "live"
    /\ inp = NoInput
    /\ out = NoOutput

\* A context that routes nothing.
RouteNothing == FALSE

\* self.context.route("**", modify_html): every request of the context is
\* handed to modify_html.
ContextRoute == TRUE

\* NudgeLabBrowserEnv(...) by the registered entry point: __init__ and its
\* reset() up to and including the creation of the task. The task
\* constructor assigns no nudge_metadata attribute.
Construct ==
    /\ phase \in {"new", "failed"}
    /\ phase' = "created"
    /\ routed' = FALSE
    /\ steps' = <<"task">>
    /\ has_task' = TRUE
    /\ nudge_metadata' = NewTaskMetadata
    /\ episode_applied' = <<>>
    /\ torn' = FALSE
    /\ last' = NoResponse
    /\ writes' = 0
    /\ UNCHANGED <<env_config, task_kind, cache, persisted, clock, first>>
    /\ UNCHANGED side

\* modify_html(route, request) for a request the routed context intercepts.
Handle(url, rtype) ==
    /\ LET cached == GetCachedContent(cache, url)
           rep    == first.set /\ first.url = url
           base   == [NoResponse EXCEPT !.url = url, !.rtype = rtype, !.repeat = rep]
       IN IF ~IsDocument(rtype)
          THEN /\ last' = [base EXCEPT !.kind = "continue"]
               /\ UNCHANGED <<cache, nudge_metadata, clock, first, episode_applied>>
          ELSE IF cached # NoneHtml
          THEN IF has_task
               THEN \E r \in ProcessHtmlContent(cached, url, task_kind, env_config,
                                                nudge_metadata, clock) :
                      LET body == IF r.raised THEN FallbackBody(cached, r) ELSE r.html
                      IN /\ last' = [base EXCEPT
                                !.kind = "fulfill", !.status = FulfillStatus,
                                !.headers = FulfillHeaders,
                                !.body = body, !.cached = cached, !.cacheRead = TRUE,
                                !.processed = TRUE, !.resolved = r.resolved,
                                !.applied = r.applied, !.raised = r.raised,
                                !.warned = r.raised,
                                !.appended = Len(r.md.list) - Len(nudge_metadata.list)]
                         /\ nudge_metadata' = r.md
                         /\ clock' = r.clk
                         /\ episode_applied' = episode_applied \o
                                [i \in 1 .. Len(r.applied) |->
                                    [url |-> url, function |-> r.applied[i]]]
                         /\ cache' = CacheAfterRequest(cache, url, body)
                         /\ first' = IF first.set THEN first
                                     ELSE [set |-> TRUE, url |-> url, body |-> body]
               ELSE /\ last' = [base EXCEPT
                                !.kind = "fulfill", !.status = FulfillStatus,
                                !.headers = FulfillHeaders,
                                !.body = cached, !.cached = cached, !.cacheRead = TRUE]
                    /\ cache' = CacheAfterRequest(cache, url, cached)
                    /\ first' = IF first.set THEN first
                                ELSE [set |-> TRUE, url |-> url, body |-> cached]
                    /\ UNCHANGED <<nudge_metadata, clock, episode_applied>>
          ELSE /\ last' = [base EXCEPT
                                !.kind = "fulfill", !.status = CacheMissStatus,
                                !.headers = CacheMissHeaders,
                                !.body = ErrorPage(url), !.cacheRead = TRUE]
               /\ UNCHANGED <<cache, nudge_metadata, clock, first, episode_applied>>
    /\ UNCHANGED <<env_config, task_kind, has_task, persisted, torn, writes, routed>>
    /\ UNCHANGED side

\* A request of a context without a route: it goes to the network.
Unhandled(url, rtype) ==
    /\ last' = [NoResponse EXCEPT !.url = url, !.rtype = rtype, !.kind = "network"]
    /\ UNCHANGED <<env_config, task_kind, cache, has_task, nudge_metadata, persisted,
                   clock, first, episode_applied, torn, writes, routed>>
    /\ UNCHANGED side

\* A request made by a page of the context.
Request(url, rtype) ==
    IF routed THEN Handle(url, rtype) ELSE Unhandled(url, rtype)

\* self.setup_route_handler(self.context), on the new context of reset().
SetupRouteHandler ==
    /\ phase = "created"
    /\ phase' = "routed"
    /\ routed' = ContextRoute
    /\ steps' = Append(steps, "route")
    /\ UNCHANGED <<env_config, task_kind, cache, has_task, nudge_metadata, persisted,
                   clock, last, first, episode_applied, torn, writes>>
    /\ UNCHANGED side

\* self.task.setup(page=self.page): page.goto(url) for the start URLs, a
\* document request each; a config with start_urls empty navigates nowhere.
TaskSetup(start) ==
    /\ phase = "routed"
    /\ phase' = "running"
    /\ steps' = Append(steps, "setup")
    /\ IF start = "none"
       THEN /\ UNCHANGED <<env_config, task_kind, cache, has_task, nudge_metadata,
                           persisted, clock, last, first, episode_applied, torn,
                           writes, routed>>
            /\ UNCHANGED side
       ELSE Request(start, "document")

\* A request of the episode after setup: the agent's navigation and the
\* resources the pages load.
ModifyHtml(url, rtype) ==
    /\ phase = "running"
    /\ Request(url, rtype)
    /\ UNCHANGED <<phase, steps>>

\* NudgeLabTask.teardown: open(study_dir/nudge_metadata.yaml, "w") creates
\* or truncates the file, then yaml.dump(self.nudge_metadata, ...) reads the
\* attribute, which raises AttributeError when it was never assigned.
Teardown(md) ==
    IF md.set
    THEN [raised |-> FALSE, file |-> [state |-> "list", list |-> md.list]]
    ELSE [raised |-> TRUE, file |-> [state |-> "truncated", list |-> <<>>]]

\* env.reset() on an env that has a task: unroute, tear the task down,
\* create the next task and route the new context. An exception of
\* teardown leaves reset at that line, with the old task still set, and a
\* later reset() tears that task down again.
Reset ==
    /\ phase \in {"running", "failed"}
    /\ has_task
    /\ LET t == Teardown(nudge_metadata)
       IN /\ persisted' = t.file
          /\ torn' = TRUE
          /\ IF t.raised
             THEN /\ phase' = "failed"
                  /\ routed' = FALSE
                  /\ UNCHANGED <<nudge_metadata, episode_applied, last, writes, steps>>
             ELSE /\ phase' = "created"
                  /\ routed' = FALSE
                  /\ steps' = <<"task">>
                  /\ nudge_metadata' = NewTaskMetadata
                  /\ episode_applied' = <<>>
                  /\ last' = NoResponse
                  /\ writes' = 1
    /\ UNCHANGED <<env_config, task_kind, cache, has_task, clock, first>>
    /\ UNCHANGED side

Next ==
    \/ Construct
    \/ SetupRouteHandler
    \/ \E start \in URLs \cup {"none"} : TaskSetup(start)
    \/ \E url \in URLs, rtype \in ResourceTypes : ModifyHtml(url, rtype)
    \/ Reset

Spec == Init /\ [][Next]_vars

(* ------------------------- the cache on disk -------------------------- *)

\* The main variables while no environment is running.
IdleMain ==
    /\ env_config = [hasChoices |-> FALSE, choices |-> <<>>]
    /\ task_kind = "NudgeLabTask"
    /\ cache = InitCache
    /\ phase = "new"
    /\ has_task = FALSE
    /\ nudge_metadata = NoMetadata
    /\ persisted = NoFileYet
    /\ clock = 0
    /\ last = NoResponse
    /\ first = NoFirst
    /\ episode_applied = <<>>
    /\ torn = FALSE
    /\ writes = 0
    /\ routed = FALSE
    /\ steps = <<>>

MaxUrlLen == 2

MaxHtmlLen == 2

MaxConfigs == 2

\* Strings are sequences of characters.
Strings(chars, n) == UNION {[1 .. k -> chars] : k \in 0 .. n}

\* URL characters: the ones quote_plus rewrites and the ones its escapes
\* are written with.
UrlChars == {" ", "+", "%", "2", "B"}

UrlStrings == Strings(UrlChars, MaxUrlLen)

\* Page characters: an ordinary character, carriage return and line feed.
HtmlChars == {"x", "CR", "LF"}

HtmlStrings == Strings(HtmlChars, MaxHtmlLen)

\* An encoder that takes "+" for a safe character.
QuoteCharPlusSafe(c) ==
    CASE c = " " -> <<"+">>
      [] c = "%" -> <<"%", "2", "5">>
      [] OTHER   -> <<c>>

\* urllib.parse.quote_plus on one character: a space becomes "+", any
\* other character outside the safe set its %XX escape.
QuoteChar(c) ==
    CASE c = " " -> <<"+">>
      [] c = "+" -> <<"%", "2", "B">>
      [] c = "%" -> <<"%", "2", "5">>
      [] OTHER   -> <<c>>

RECURSIVE QuotePlus(_)
QuotePlus(s) ==
    IF s = <<>> THEN <<>> ELSE QuoteChar(Head(s)) \o QuotePlus(Tail(s))

\* NudgeLabBrowserEnv.sanitize_url.
SanitizeUrl(url) == QuotePlus(url)

\* sanitize_url of scripts/precache_pages.py.
PrecacheSanitizeUrl(url) == QuotePlus(url)

\* self.cache_dir / f"{sanitized}.html"
CachePath(url) == SanitizeUrl(url) \o <<".html">>

\* CACHE_DIR / f"{sanitized}.html"
PrecachePath(url) == PrecacheSanitizeUrl(url) \o <<".html">>

\* f.write(content) on a file opened with open(path, "w", encoding="utf-8"):
\* newline=None writes "\n" as os.linesep, which is "\n" on POSIX, and
\* leaves "\r" alone.
WriteText(s) == s

\* f.read() on a file opened with open(path, "r", encoding="utf-8"):
\* newline=None turns "\r\n" and a lone "\r" into "\n".
RECURSIVE ReadText(_)
ReadText(s) ==
    IF s = <<>> THEN <<>>
    ELSE IF Head(s) = "CR"
    THEN IF Len(s) > 1 /\ s[2] = "LF"
         THEN <<"LF">> \o ReadText(Tail(Tail(s)))
         ELSE <<"LF">> \o ReadText(Tail(s))
    ELSE <<Head(s)>> \o ReadText(Tail(s))

\* A file of .cache.
DiskFile(path, bytes) == [path |-> path, bytes |-> bytes]

WriteFile(d, path, content) ==
    {f \in d : f.path # path} \cup {DiskFile(path, WriteText(content))}

\* cache_content(url, content).
DiskPut(d, url, content) == WriteFile(d, CachePath(url), content)

\* get_cached_content(url): the text of the file, None without a file.
DiskGet(d, url) ==
    IF \E f \in d : f.path = CachePath(url)
    THEN [found |-> TRUE,
          text |-> ReadText((CHOOSE f \in d : f.path = CachePath(url)).bytes)]
    ELSE [found |-> FALSE, text |-> <<>>]

\* The URLs the experiment configs of the pre-caching pass name.
PreUrls == {<<"2">>, <<"B", "+">>}

\* conf/experiment/exp*.yaml as far as URLs go: task.config.start_urls and
\* the url fields of task.config.choices other than "*".
ExperimentConfigs ==
    [start_urls : SUBSET PreUrls, choice_urls : SUBSET PreUrls]

ConfigSets ==
    {cs \in SUBSET ExperimentConfigs : Cardinality(cs) \in 1 .. MaxConfigs}

\* get_all_urls_from_configs(): the start_urls of every config file.
GetAllUrlsFromConfigs(configs) == UNION {c.start_urls : c \in configs}

\* What requests.get(url, timeout=30) and raise_for_status() come to: a
\* response with a text, or a RequestException.
Responses == {[ok |-> TRUE, text |-> <<"x">>], [ok |-> FALSE, text |-> <<>>]}

\* download_and_cache_url(url): the RequestException is printed and the
\* pass goes on.
DownloadAndCacheUrl(d, url, resp) ==
    IF resp.ok THEN WriteFile(d, PrecachePath(url), resp.text) ELSE d

CacheInputs ==
    [kind : {"roundtrip"}, url : PreUrls, html : HtmlStrings]
    \cup {i \in [kind : {"keys"}, url : UrlStrings, other : UrlStrings,
                 html : {<<"x">>}] : i.url # i.other}
    \cup [kind : {"precache"}, configs : ConfigSets]

CacheInit ==
    /\ IdleMain
    /\ disk = {}
    /\ pc = "start"
    /\ inp \in CacheInputs
    /\ out = NoOutput

\* cache_content(url, html) on an empty cache directory.
CacheContent ==
    /\ pc = "start"
    /\ inp.kind \in {"roundtrip", "keys"}
    /\ disk' = DiskPut(disk, inp.url, inp.html)
    /\ pc' = "put"
    /\ UNCHANGED <<main, inp, out>>

\* cache_content(other, html2) for a second URL.
CacheOther ==
    /\ pc = "put"
    /\ inp.kind = "keys"
    /\ disk' = DiskPut(disk, inp.other, <<"x", "x">>)
    /\ pc' = "other"
    /\ UNCHANGED <<main, inp, out>>

\* get_cached_content(url).
GetCached ==
    /\ \/ pc = "put" /\ inp.kind = "roundtrip"
       \/ pc = "other" /\ inp.kind = "keys"
    /\ out' = [kind |-> "get", content |-> DiskGet(disk, inp.url)]
    /\ pc' = "got"
    /\ UNCHANGED <<main, inp, disk>>

\* main() of precache_pages.py up to its loop. URL_SUBLIST only replaces
\* the host placeholder, which the URLs here no longer carry.
PrecacheScan ==
    /\ pc = "start"
    /\ inp.kind = "precache"
    /\ out' = [kind |-> "urls", todo |-> GetAllUrlsFromConfigs(inp.configs)]
    /\ pc' = "download"
    /\ UNCHANGED <<main, inp, disk>>

\* One iteration of `for url in tqdm(urls)`: the set is walked in any order.
PrecacheDownload(url, resp) ==
    /\ pc = "download"
    /\ url \in out.todo
    /\ disk' = DownloadAndCacheUrl(disk, url, resp)
    /\ out' = [out EXCEPT !.todo = @ \ {url}]
    /\ UNCHANGED <<main, inp, pc>>

\* print("Pre-caching complete.")
PrecacheDone ==
    /\ pc = "download"
    /\ out.todo = {}
    /\ pc' = "done"
    /\ UNCHANGED <<main, inp, out, disk>>

CacheNext ==
    \/ CacheContent
    \/ CacheOther
    \/ GetCached
    \/ PrecacheScan
    \/ \E url \in PreUrls, resp \in Responses : PrecacheDownload(url, resp)
    \/ PrecacheDone

CacheSpec == CacheInit /\ [][CacheNext]_vars

(* --------------------- page functions, one call each ------------------ *)

MaxCents == 110

\* value arguments of price, in hundredths: small amounts and 19.99.
PriceValues == (0 .. MaxCents) \cup {1999}

DigitChars == <<"0", "1", "2", "3", "4", "5", "6", "7", "8", "9">>

\* The decimal digits of a natural number.
RECURSIVE Digits(_)
Digits(n) ==
    IF n < 10 THEN <<DigitChars[n + 1]>>
    ELSE Digits(n \div 10) \o <<DigitChars[(n % 10) + 1]>>

\* A format that drops a trailing zero of the fraction, as str(value) does.
Fmt2Short(cents) ==
    Digits(cents \div 100) \o <<".">> \o
        (IF cents % 10 = 0 THEN <<DigitChars[((cents % 100) \div 10) + 1]>>
         ELSE <<DigitChars[((cents % 100) \div 10) + 1], DigitChars[(cents % 10) + 1]>>)

\* f"{value:.2f}" for a value of so many hundredths.
Fmt2(cents) ==
    Digits(cents \div 100) \o <<".">> \o
        <<DigitChars[((cents % 100) \div 10) + 1], DigitChars[(cents % 10) + 1]>>

\* An element the function looks up: missing, or there with a text or an
\* attribute value.
NoElement == [present |-> FALSE, text |-> <<>>]

Element(text) == [present |-> TRUE, text |-> text]

\* Product pages as price sees them: the first span.price with its text
\* and the first span.price-wrapper with its data-price-amount.
PricePages ==
    [span : {NoElement, Element(<<"$", "9", ".", "9", "9">>)},
     wrapper : {NoElement, Element(<<"9", ".", "9", "9">>)}]

\* abxlab product.price(original_html, value).
Price(page, cents) ==
    IF ~page.span.present
    THEN [raised |-> TRUE, ret |-> "none", html |-> page, meta |-> "none"]
    ELSE [raised |-> FALSE, ret |-> "tuple",
          html |-> [span |-> Element(<<"$">> \o Fmt2(cents)),
                    wrapper |-> IF page.wrapper.present
                                THEN Element(Fmt2(cents)) ELSE page.wrapper],
          meta |-> "{}"]

PageInputs ==
    [kind : {"classify"}, page : Pages \cup ClassPages, task : TaskKinds]
    \cup [kind : {"price"}, page : PricePages, value : PriceValues]

PageInit ==
    /\ IdleMain
    /\ disk = {}
    /\ pc = "start"
    /\ inp \in PageInputs
    /\ out = NoOutput

\* get_pagetype(get_soup(html)) and task.process_html(html) on one page.
Classify ==
    /\ pc = "start"
    /\ inp.kind = "classify"
    /\ out' = [kind |-> "classify",
               pagetype |-> GetPagetype(inp.page),
               processed |-> ProcessHtml(inp.task, RawPage(inp.page))]
    /\ pc' = "classified"
    /\ UNCHANGED <<main, inp, disk>>

\* price(html, value=v).
ApplyPrice ==
    /\ pc = "start"
    /\ inp.kind = "price"
    /\ out' = [kind |-> "price", result |-> Price(inp.page, inp.value)]
    /\ pc' = "priced"
    /\ UNCHANGED <<main, inp, disk>>

PageNext ==
    \/ Classify
    \/ ApplyPrice

PageSpec == PageInit /\ [][PageNext]_vars

(* ------------------------------ the scraper --------------------------- *)

MaxRuns == 2

\* The product pages of the shop, by path.
Products == {"p1", "p2"}

\* One worker per category URL (max_workers defaults to 20).
Categories == {1, 2}

\* page_utils.get_all_product_links(page) of a category page: product
\* paths in page order.
LinkLists == {<<>>, <<"p1">>, <<"p2">>, <<"p1", "p2">>, <<"p2", "p1">>}

\* args.base_url and the default of --replace_base_url_with.
BaseUrl == "http://shop"

Placeholder == "${env.abxlab_url}"

\* urljoin(base_url, product_link).
UrlJoin(base, link) == [base |-> base, path |-> link]

\* product_data["product_url"].replace(base_url, replace_base_url_with),
\* done when replace_base_url_with is not empty.
PortableUrl(url, replace) ==
    IF replace /\ url.base = BaseUrl THEN [url EXCEPT !.base = Placeholder] ELSE url

\* get_existing_product_urls(file): the product_url column of the rows.
GetExistingProductUrls(rows) == {rows[i] : i \in 1 .. Len(rows)}

\* A worker before its first product link.
WorkerStart == [i |-> 1, stage |-> "check"]

ScrapeInputs ==
    [kind : {"scrape"}, links : [Categories -> LinkLists], replace : BOOLEAN]

NoScrape == [p \in Products |-> 0]

ScrapeInit ==
    /\ IdleMain
    /\ disk = {}
    /\ pc = "start"
    /\ inp \in ScrapeInputs
    /\ out = [kind |-> "scrape", run |-> 0, csv |-> <<>>, from |-> 0,
              existing |-> {}, scraped |-> NoScrape,
              worker |-> [c \in Categories |-> WorkerStart]]

\* main() up to the submission of the category workers.
StartRun ==
    /\ pc \in {"start", "finished"}
    /\ out.run < MaxRuns
    /\ pc' = "scraping"
    /\ out' = [out EXCEPT !.run = @ + 1,
                          !.from = Len(out.csv),
                          !.existing = GetExistingProductUrls(out.csv),
                          !.scraped = NoScrape,
                          !.worker = [c \in Categories |-> WorkerStart]]
    /\ UNCHANGED <<main, inp, disk>>

\* process_category, the loop head and `if product_full_url not in
\* existing_urls`.
CheckLink(c) ==
    /\ pc = "scraping"
    /\ out.worker[c].stage = "check"
    /\ LET w == out.worker[c]
       IN IF w.i > Len(inp.links[c])
          THEN out' = [out EXCEPT !.worker[c].stage = "done"]
          ELSE IF UrlJoin(BaseUrl, inp.links[c][w.i]) \notin out.existing
          THEN out' = [out EXCEPT !.worker[c].stage = "scrape"]
          ELSE out' = [out EXCEPT !.worker[c].i = @ + 1]
    /\ UNCHANGED <<main, inp, disk, pc>>

\* scrape_product(...) and, for a product that was scraped, the row written
\* under csv_writer_lock.
ScrapeProduct(c, ok) ==
    /\ pc = "scraping"
    /\ out.worker[c].stage = "scrape"
    /\ LET link == inp.links[c][out.worker[c].i]
           url  == UrlJoin(BaseUrl, link)
       IN out' = [out EXCEPT !.worker[c].stage = "add",
                             !.scraped[link] = @ + 1,
                             !.csv = IF ok THEN Append(@, PortableUrl(url, inp.replace))
                                     ELSE @]
    /\ UNCHANGED <<main, inp, disk, pc>>

\* existing_urls.add(product_full_url)
AddExisting(c) ==
    /\ pc = "scraping"
    /\ out.worker[c].stage = "add"
    /\ LET url == UrlJoin(BaseUrl, inp.links[c][out.worker[c].i])
       IN out' = [out EXCEPT !.worker[c].stage = "check",
                             !.worker[c].i = @ + 1,
                             !.existing = @ \cup {url}]
    /\ UNCHANGED <<main, inp, disk, pc>>

\* The executor's with block ends when every worker has returned.
FinishRun ==
    /\ pc = "scraping"
    /\ \A c \in Categories : out.worker[c].stage = "done"
    /\ pc' = "finished"
    /\ UNCHANGED <<main, inp, disk, out>>

ScrapeNext ==
    \/ StartRun
    \/ \E c \in Categories : CheckLink(c)
    \/ \E c \in Categories, ok \in BOOLEAN : ScrapeProduct(c, ok)
    \/ \E c \in Categories : AddExisting(c)
    \/ FinishRun

ScrapeSpec == ScrapeInit /\ [][ScrapeNext]_vars

(* --------------------------- product pairing -------------------------- *)

MaxProducts == 4

MaxNeighborhood == 3

\* Ratings in percent, as the scraped rating column holds them.
RatingValues == {20, 80}

\* The price of the k-th product of a category: all different.
PriceOf(k) == 10 * k

\* The rows of one category: a product per k with its price and a rating.
DataFrames ==
    UNION {{{[price |-> PriceOf(k), rating |-> rs[k]] : k \in 1 .. n} :
                rs \in [1 .. n -> RatingValues]} : n \in 0 .. MaxProducts}

\* --max_rating_diff times 100, and --max_price_diff: float("inf") or a
\* fraction, given in percent.
MaxRatingDiff100 == 10

MaxPriceDiffs == {[inf |-> TRUE, pct |-> 0], [inf |-> FALSE, pct |-> 100]}

Abs(x) == IF x < 0 THEN -x ELSE x

Min2(a, b) == IF a < b THEN a ELSE b

\* is_valid_pair(p1, p2, max_rating_diff, max_price_diff).
IsValidPair(p1, p2, maxRating100, maxPrice) ==
    IF Abs(p1.rating - p2.rating) > maxRating100 THEN FALSE
    ELSE IF ~maxPrice.inf /\ Min2(p1.price, p2.price) > 0
            /\ Abs(p1.price - p2.price) * 100 > maxPrice.pct * Min2(p1.price, p2.price)
    THEN FALSE
    ELSE TRUE

\* data.sort_values(by="price").to_dict("records")
RECURSIVE SortByPrice(_)
SortByPrice(rows) ==
    IF rows = {} THEN <<>>
    ELSE LET lo == CHOOSE r \in rows : \A q \in rows : r.price <= q.price
         IN <<lo>> \o SortByPrice(rows \ {lo})

\* The valid pairs within the neighborhood, as index pairs of sorted.
ValidPairs(sorted, maxRating100, maxPrice, neighborhood) ==
    {pr \in [i : 1 .. Len(sorted), j : 1 .. Len(sorted)] :
        /\ pr.i < pr.j
        /\ pr.j <= pr.i + neighborhood
        /\ IsValidPair(sorted[pr.i], sorted[pr.j], maxRating100, maxPrice)}

\* valid_pairs built by rising i and j, then sorted by j with a stable
\* sort: by j, and by i among equal j.
RECURSIVE SortByEnd(_)
SortByEnd(prs) ==
    IF prs = {} THEN <<>>
    ELSE LET lo == CHOOSE a \in prs :
                      \A b \in prs : a.j < b.j \/ (a.j = b.j /\ a.i <= b.i)
         IN <<lo>> \o SortByEnd(prs \ {lo})

\* Two pairs that have no product in common.
NoSharedProduct(a, b) == a.i # b.i /\ a.i # b.j /\ a.j # b.i /\ a.j # b.j

\* The test of the inner loop: the earlier pair ends before the current
\* one starts or starts after it ends, and shares no endpoint with it.
Compatible(prev, cur) ==
    /\ (prev.j < cur.i \/ prev.i > cur.j)
    /\ prev.j # cur.i
    /\ prev.i # cur.j

\* selected_pairs[k] of the dynamic program (dp[k] is its length).
RECURSIVE SelectedPairs(_, _)
SelectedPairs(vp, k) ==
    IF k = 1 THEN <<vp[1]>>
    ELSE LET skip   == SelectedPairs(vp, k - 1)
             compat == {j \in 1 .. (k - 1) : Compatible(vp[j], vp[k])}
             latest == CHOOSE j \in compat : \A q \in compat : q <= j
             take   == IF compat = {} THEN <<vp[k]>>
                       ELSE SelectedPairs(vp, latest) \o <<vp[k]>>
         IN IF Len(take) > Len(skip) THEN take ELSE skip

\* generate_dynamic_pairs(data, max_rating_diff, max_price_diff,
\* neighborhood), the pairs given by their positions in price order.
GenerateDynamicPairs(data, maxRating100, maxPrice, neighborhood) ==
    IF Cardinality(data) < 2 THEN <<>>
    ELSE LET sorted == SortByPrice(data)
             vp     == SortByEnd(ValidPairs(sorted, maxRating100, maxPrice, neighborhood))
         IN IF vp = <<>> THEN <<>> ELSE SelectedPairs(vp, Len(vp))

PairInputs ==
    [kind : {"pairs"}, data : DataFrames, max_price_diff : MaxPriceDiffs,
     neighborhood : 1 .. MaxNeighborhood]

PairInit ==
    /\ IdleMain
    /\ disk = {}
    /\ pc = "start"
    /\ inp \in PairInputs
    /\ out = NoOutput

\* The call for one category of select_product_pairs.main with
\* --strategy dynamic.
DynamicPairs ==
    /\ pc = "start"
    /\ out' = [kind |-> "pairs",
               pairs |-> GenerateDynamicPairs(inp.data, MaxRatingDiff100,
                                              inp.max_price_diff, inp.neighborhood)]
    /\ pc' = "paired"
    /\ UNCHANGED <<main, inp, disk>>

PairNext == DynamicPairs

PairSpec == PairInit /\ [][PairNext]_vars

(* ----------------------------- survey files --------------------------- *)

MaxConditions == 2

\* The (url_0, url_1) pairs a study table may hold rows for.
UrlPairs == {"ab", "cd", "ef"}

\* df: for every pair the number of its condition rows; a row is a pair
\* with the position of the condition in the pair's group.
StudyTables == [UrlPairs -> 0 .. MaxConditions]

TableRows(t) ==
    {r \in [pair : UrlPairs, cond : 1 .. MaxConditions] : r.cond <= t[r.pair]}

\* list(df_grouped.groups.keys())
UniquePairs(t) == {u \in UrlPairs : t[u] > 0}

RECURSIVE SumOver(_, _)
SumOver(t, us) ==
    IF us = {} THEN 0
    ELSE LET u == CHOOSE x \in us : TRUE IN t[u] + SumOver(t, us \ {u})

\* num_groups = total_rows // num_pairs, a ZeroDivisionError for a table
\* without rows.
NumGroups(t) ==
    IF UniquePairs(t) = {} THEN [raised |-> TRUE, n |-> 0]
    ELSE [raised |-> FALSE,
          n |-> SumOver(t, UniquePairs(t)) \div Cardinality(UniquePairs(t))]

\* The orders random.shuffle can leave list(range(n)) in.
Shuffles(n) == {f \in [1 .. n -> 1 .. n] : \A a \in 1 .. n : \A b \in 1 .. n :
                                              f[a] = f[b] => a = b}

SurveyInputs == [kind : {"survey"}, df : StudyTables]

SurveyInit ==
    /\ IdleMain
    /\ disk = {}
    /\ pc = "start"
    /\ inp \in SurveyInputs
    /\ out = NoOutput

\* generate_survey_data up to the assignment loop: the groups, num_groups
\* and one shuffle per pair.
SurveyShuffle ==
    /\ pc = "start"
    /\ IF NumGroups(inp.df).raised
       THEN /\ pc' = "raised"
            /\ out' = [kind |-> "survey", shuffled |-> [u \in UrlPairs |-> <<>>],
                       matrix |-> <<>>, files |-> <<>>]
       ELSE /\ pc' = "assign"
            /\ \E sh \in [UrlPairs -> UNION {Shuffles(n) : n \in 0 .. MaxConditions}] :
                  /\ \A u \in UrlPairs : Len(sh[u]) = inp.df[u]
                  /\ out' = [kind |-> "survey", shuffled |-> sh,
                             matrix |-> <<>>, files |-> <<>>]
    /\ UNCHANGED <<main, inp, disk>>

\* One pass of `for participant_idx in range(num_groups)`: the row of
\* every pair at shuffled_indices[participant_idx], an IndexError for a
\* pair with fewer rows.
SurveyAssign ==
    /\ pc = "assign"
    /\ Len(out.matrix) < NumGroups(inp.df).n
    /\ LET idx == Len(out.matrix) + 1
       IN IF \E u \in UniquePairs(inp.df) : idx > Len(out.shuffled[u])
          THEN /\ pc' = "raised"
               /\ out' = out
          ELSE /\ pc' = "assign"
               /\ out' = [out EXCEPT !.matrix = Append(@,
                            {[pair |-> u, cond |-> out.shuffled[u][idx]] :
                                u \in UniquePairs(inp.df)})]
    /\ UNCHANGED <<main, inp, disk>>

\* The loop that writes study_data_<i>.csv for every participant.
SurveySave ==
    /\ pc = "assign"
    /\ Len(out.matrix) = NumGroups(inp.df).n
    /\ pc' = "saved"
    /\ out' = [out EXCEPT !.files = out.matrix]
    /\ UNCHANGED <<main, inp, disk>>

SurveyNext ==
    \/ SurveyShuffle
    \/ SurveyAssign
    \/ SurveySave

SurveySpec == SurveyInit /\ [][SurveyNext]_vars

(* ------------------------- collecting the results --------------------- *)

MaxExperiments == 3

ExperimentDirs == 1 .. MaxExperiments

\* What processing an experiment directory comes to: a DataFrame within
\* the timeout, an exception within the timeout, or a DataFrame only after
\* the timeout.
Outcomes == {"ok", "raises", "slow"}

\* as_completed(future_to_dir, timeout=timeout): counted from the call, the
\* iterator raises TimeoutError once the time is up and futures are still
\* pending, which is after it has yielded those that finish in time.
AsCompletedTimesOut(pending, behaviour) ==
    /\ pending # {}
    /\ \A e \in pending : behaviour[e] = "slow"

CollectInputs == [kind : {"collect"}, behaviour : [ExperimentDirs -> Outcomes]]

CollectInit ==
    /\ IdleMain
    /\ disk = {}
    /\ pc = "start"
    /\ inp \in CollectInputs
    /\ out = NoOutput

\* process_with_threading up to the for loop: every directory submitted.
SubmitAll ==
    /\ pc = "start"
    /\ pc' = "loop"
    /\ out' = [kind |-> "collect", pending |-> ExperimentDirs, running |-> ExperimentDirs,
               dfs |-> <<>>, logged |-> {}]
    /\ UNCHANGED <<main, inp, disk>>

\* One pass of the for loop for a future that is done: future.result()
\* gives the DataFrame, which is appended, or raises the task's exception,
\* which is logged.
LoopBody(e) ==
    /\ pc = "loop"
    /\ e \in out.pending
    /\ inp.behaviour[e] # "slow"
    /\ out' = [out EXCEPT !.pending = @ \ {e},
                          !.running = @ \ {e},
                          !.dfs = IF inp.behaviour[e] = "ok" THEN Append(@, e) ELSE @,
                          !.logged = IF inp.behaviour[e] = "raises" THEN @ \cup {e} ELSE @]
    /\ UNCHANGED <<main, inp, disk, pc>>

\* The iterator raises TimeoutError in the for statement, outside the try
\* of the loop body: the exception leaves the with block.
IteratorTimeout ==
    /\ pc = "loop"
    /\ AsCompletedTimesOut(out.pending, inp.behaviour)
    /\ pc' = "unwinding"
    /\ UNCHANGED <<main, inp, disk, out>>

\* ThreadPoolExecutor.__exit__: shutdown(wait=True) waits for the tasks
\* that still run.
ShutdownWait(e) ==
    /\ pc \in {"unwinding", "exiting"}
    /\ e \in out.running
    /\ out' = [out EXCEPT !.running = @ \ {e}]
    /\ UNCHANGED <<main, inp, disk, pc>>

\* The iterator is exhausted and the with block is left.
LoopEnd ==
    /\ pc = "loop"
    /\ out.pending = {}
    /\ pc' = "exiting"
    /\ UNCHANGED <<main, inp, disk, out>>

\* return all_normalized_dfs
ReturnDfs ==
    /\ pc = "exiting"
    /\ out.running = {}
    /\ pc' = "returned"
    /\ UNCHANGED <<main, inp, disk, out>>

\* The TimeoutError propagates to the caller; nothing is returned.
RaiseTimeout ==
    /\ pc = "unwinding"
    /\ out.running = {}
    /\ pc' = "raised"
    /\ UNCHANGED <<main, inp, disk, out>>

CollectNext ==
    \/ SubmitAll
    \/ \E e \in ExperimentDirs : LoopBody(e)
    \/ IteratorTimeout
    \/ \E e \in ExperimentDirs : ShutdownWait(e)
    \/ LoopEnd
    \/ ReturnDfs
    \/ RaiseTimeout

CollectSpec == CollectInit /\ [][CollectNext]_vars

(* ----------------------- continuing an experiment --------------------- *)

MaxSummaries == 2

\* summary_info.json of a run: err_msg and stack_trace, each None or a text.
Summaries == [err_msg : {"None", "error"}, stack_trace : {"None", "trace"}]

\* The summary_info.json files below the previous run directory, in the
\* order glob returns them.
SummaryLists == UNION {[1 .. n -> Summaries] : n \in 0 .. MaxSummaries}

ContinueInputs ==
    {i \in [kind : {"continue"}, continue_from : BOOLEAN, prev_exists : BOOLEAN,
            summary_info : SummaryLists] :
        ~i.prev_exists => i.summary_info = <<>>}

\* The continue_from block of run.main: "skip" for return 0, "assert" for
\* the failed assertion, "run" for falling through to the experiment.
ContinueFrom(i) ==
    IF ~i.continue_from THEN "run"
    ELSE IF ~i.prev_exists THEN "run"
    ELSE IF Len(i.summary_info) # 1 THEN "assert"
    ELSE IF i.summary_info[1].err_msg = "None" /\ i.summary_info[1].stack_trace = "None"
    THEN "skip"
    ELSE "run"

ContinueInit ==
    /\ IdleMain
    /\ disk = {}
    /\ pc = "start"
    /\ inp \in ContinueInputs
    /\ out = NoOutput

\* run.main up to the instantiation of the agent.
CheckPrevious ==
    /\ pc = "start"
    /\ pc' = ContinueFrom(inp)
    /\ out' = [kind |-> "continue", ran |-> FALSE]
    /\ UNCHANGED <<main, inp, disk>>

\* The rest of run.main: the experiment of the task.
RunExperiment ==
    /\ pc = "run"
    /\ pc' = "done"
    /\ out' = [out EXCEPT !.ran = TRUE]
    /\ UNCHANGED <<main, inp, disk>>

ContinueNext ==
    \/ CheckPrevious
    \/ RunExperiment

ContinueSpec == ContinueInit /\ [][ContinueNext]_vars

(* --------------------- generated experiment configs ------------------- *)

\* np.nan in the "Nudge Index" column: the row carries no nudge.
NaN == -1

\* Rows of the product tasks: "Start URLs" is the tuple of the pair's two
\* product pages, "Nudge Index" is NaN or the position of the nudged page.
ProductRows ==
    [tuple : {TRUE}, start : {<<"A", "B">>, <<"B", "A">>}, home : {FALSE},
     nudgeIndex : {NaN, 0, 1}, fn : {Fsub, Fstock}]

\* Rows of the category and home tasks: "Start URLs" is one string.
PageRows ==
    [tuple : {FALSE}, start : {<<"C">>}, home : BOOLEAN,
     nudgeIndex : {NaN, 0}, fn : {Fcat}]

\* The "choices" list save_configs writes for one row: the nudge choice
\* first, then one price choice per start URL, then one review-count
\* choice per start URL.
SaveConfigs(row, match_price, match_review_count) ==
    LET url    == IF row.tuple THEN row.start[row.nudgeIndex + 1]
                  ELSE IF row.home THEN Wildcard
                  ELSE row.start[1]
        nudge  == IF row.nudgeIndex = NaN THEN <<>>
                  ELSE <<[url |-> url, functions |-> <<row.fn>>]>>
        price  == IF match_price /\ row.tuple
                  THEN [i \in 1 .. Len(row.start) |->
                           [url |-> row.start[i], functions |-> <<Fprice>>]]
                  ELSE <<>>
        review == IF match_review_count /\ row.tuple
                  THEN [i \in 1 .. Len(row.start) |->
                           [url |-> row.start[i], functions |-> <<Freview>>]]
                  ELSE <<>>
    IN [hasChoices |-> TRUE, choices |-> nudge \o price \o review]

GeneratedConfigs ==
    {SaveConfigs(row, mp, mr) :
        row \in ProductRows \cup PageRows, mp \in BOOLEAN, mr \in BOOLEAN}

\* An environment made for one generated experiment.
GenInit ==
    /\ env_config \in GeneratedConfigs
    /\ task_kind \in TaskKinds
    /\ cache = InitCache
    /\ phase = "new"
    /\ has_task = FALSE
    /\ nudge_metadata = NoMetadata
    /\ persisted = NoFileYet
    /\ clock = 0
    /\ last = NoResponse
    /\ first = NoFirst
    /\ episode_applied = <<>>
    /\ torn = FALSE
    /\ writes = 0
    /\ routed = FALSE
    /\ steps = <<>>
    /\ disk = {}
    /\ pc = "live"
    /\ inp = NoInput
    /\ out = NoOutput

GenSpec == GenInit /\ [][Next]_vars

(* ------------------------ category page nudges ------------------------ *)

MaxItems == 2

\* An a.product-item-link of a category page: its href, whether it sits in
\* a li.item.product.product-item, and whether that item has the title
\* element strong.product.name.product-item-name.
Links == [href : Products, inItem : BOOLEAN, title : BOOLEAN]

\* Category pages, as the links they hold in document order.
CategoryPages == UNION {[1 .. n -> Links] : n \in 0 .. MaxItems}

\* items = soup.select("li.item.product.product-item"), by link position.
ItemPositions(page) == {i \in 1 .. Len(page) : page[i].inItem}

\* The index enumerate(items) gives the item at a link position.
ItemIndex(page, i) == Cardinality({j \in ItemPositions(page) : j < i})

\* The call ends in an exception; nothing is returned.
CategoryRaised ==
    [raised |-> TRUE, ret |-> "none", spans |-> {}, item_index |-> -1,
     product |-> "none"]

\* return modified_html, {"item_index": item_index, ..., "product": product}
\* with the span inserted after the title of the item at position i.
CategoryReturned(page, i, product) ==
    [raised |-> FALSE, ret |-> "tuple", spans |-> {i},
     item_index |-> ItemIndex(page, i), product |-> product]

\* The local item_index is assigned only in the `product is None` branch.
ItemIndexBound(product) == product = "none"

\* nudgelab category.subtitle(original_html, value, elem_id, product): the
\* set of ways a call can end. product "none" is None: every item is a
\* possible outcome of random.choice, which raises on an empty list.
\* Otherwise link is the first a.product-item-link with that href, item its
\* enclosing list item; a None link, item or title element raises at the
\* next attribute access, and the return statement reads item_index.
CategorySubtitleOn(page, product) ==
    IF product = "none"
    THEN IF ItemPositions(page) = {} THEN {CategoryRaised}
         ELSE {IF page[i].title THEN CategoryReturned(page, i, product)
               ELSE CategoryRaised : i \in ItemPositions(page)}
    ELSE LET hits == {i \in 1 .. Len(page) : page[i].href = product}
         IN IF hits = {} THEN {CategoryRaised}
            ELSE LET i == CHOOSE h \in hits : \A g \in hits : h <= g
                 IN IF ~page[i].inItem THEN {CategoryRaised}
                    ELSE IF ~page[i].title THEN {CategoryRaised}
                    ELSE IF ~ItemIndexBound(product) THEN {CategoryRaised}
                    ELSE {CategoryReturned(page, i, product)}

\* nudgelab category.stock: return subtitle(original_html, value, elem_id, product)
CategoryStockOn(page, product) == CategorySubtitleOn(page, product)

CategoryInputs ==
    [kind : {"subtitle", "stock"}, page : CategoryPages,
     product : Products \cup {"none"}]

CategoryInit ==
    /\ IdleMain
    /\ disk = {}
    /\ pc = "start"
    /\ inp \in CategoryInputs
    /\ out = NoOutput

\* subtitle(html, value, product=product)
CallSubtitle ==
    /\ pc = "start"
    /\ inp.kind = "subtitle"
    /\ \E o \in CategorySubtitleOn(inp.page, inp.product) : out' = o
    /\ pc' = "done"
    /\ UNCHANGED <<main, inp, disk>>

\* stock(html, value, product=product)
CallStock ==
    /\ pc = "start"
    /\ inp.kind = "stock"
    /\ \E o \in CategoryStockOn(inp.page, inp.product) : out' = o
    /\ pc' = "done"
    /\ UNCHANGED <<main, inp, disk>>

CategoryNext ==
    \/ CallSubtitle
    \/ CallStock

CategorySpec == CategoryInit /\ [][CategoryNext]_vars

(* ------------------------------ claims -------------------------------- *)

\* The last request was a document request answered from a cache file
\* while a task was set.
CacheHitDocument ==
    /\ last.kind # "none"
    /\ last.rtype = "document"
    /\ cache[last.url].state = "file"
    /\ has_task

\* The plain left fold of a function list over html: the results of
\* calling each function on the previous function's output.
RECURSIVE LeftFold(_, _)
LeftFold(fs, outs) ==
    IF fs = <<>> THEN outs
    ELSE LeftFold(Tail(fs),
                  UNION {IF o.raised THEN {o} ELSE Call(Head(fs), o.html) : o \in outs})

FoldOf(fs, html) == LeftFold(fs, {Returned(html, "str", "none")})

\* C1: a request whose resource_type is not "document" is continued
\* unmodified: the handler reads no cache entry, does not run
\* task.process_html, applies no intervention and appends no metadata.
C1_NonDocumentPassthrough ==
    (last.kind # "none" /\ last.rtype # "document") =>
        /\ last.kind = "continue"
        /\ ~last.cacheRead
        /\ ~last.processed
        /\ last.resolved = -1
        /\ last.applied = <<>>
        /\ last.appended = 0

C1_Witness ==
    /\ last.rtype = "xhr"
    /\ last.kind = "continue"
    /\ last.url = "A"
    /\ env_config.hasChoices
    /\ ResolveChoice("A", env_config.choices) # 0

\* C2: a document request whose URL has no readable cache entry is never
\* continued to the network: it is fulfilled with the labeled error page
\* and status 500 (not 2xx), no intervention is applied and no metadata
\* is recorded.
C2_CacheMissErrorPage ==
    (last.kind # "none" /\ last.rtype = "document"
        /\ cache[last.url].state # "file") =>
        /\ last.kind = "fulfill"
        /\ last.status = 500
        /\ last.body = ErrorPage(last.url)
        /\ ~last.processed
        /\ last.applied = <<>>
        /\ last.appended = 0

C2_Witness ==
    /\ last.rtype = "document"
    /\ last.url = "E"
    /\ cache["E"].state = "unreadable"
    /\ last.status = CacheMissStatus
    /\ ResolveChoice("E", env_config.choices) # 0

C4_LeftFold ==
    LET pre  == ProcessHtml(task_kind, cache[last.url].content)
        k    == ResolveChoice(last.url, env_config.choices)
        outs == FoldOf(env_config.choices[k].functions, pre.html)
    IN (CacheHitDocument /\ env_config.hasChoices /\ k # 0 /\ ~pre.raised
            /\ \A o \in outs : ~o.raised) =>
        last.body \in {o.html : o \in outs}

\* C5: when an entry whose url equals the request URL is declared before
\* a "*" entry, the resolver selects the exact entry and exactly that
\* entry's interventions are applied to the request.
C5_ExactBeforeWildcard ==
    LET cs    == env_config.choices
        pre   == ProcessHtml(task_kind, cache[last.url].content)
        exact == {i \in 1 .. Len(cs) : cs[i].url = last.url}
        wild  == {i \in 1 .. Len(cs) : cs[i].url = Wildcard}
    IN \A i \in exact :
        (CacheHitDocument /\ env_config.hasChoices /\ ~pre.raised
            /\ (\A j \in exact \cup wild : i <= j)
            /\ (\E j \in wild : i < j)
            /\ \A o \in FoldOf(cs[i].functions, pre.html) : ~o.raised) =>
            /\ last.resolved = i
            /\ last.applied = cs[i].functions
            /\ last.body \in {o.html : o \in FoldOf(cs[i].functions, pre.html)}

\* C6 as stated: exact matches are tried first, so whenever an entry's url
\* equals the request URL the selected choice is the first such entry, and
\* a "*" entry is selected only when there is none.
C6_ExactFirst ==
    LET cs    == env_config.choices
        exact == {i \in 1 .. Len(cs) : cs[i].url = last.url}
        wild  == {i \in 1 .. Len(cs) : cs[i].url = Wildcard}
    IN (last.resolved # -1) =>
        IF exact # {} THEN last.resolved \in exact /\ \A j \in exact : last.resolved <= j
        ELSE IF wild # {} THEN last.resolved \in wild /\ \A j \in wild : last.resolved <= j
        ELSE last.resolved = 0

\* C6 amended: the resolver makes one pass in declaration order and selects
\* the first entry whose url is the request URL or "*", whichever kind it
\* is, so a "*" entry declared before an exact entry wins; it selects
\* nothing only when no entry has the request URL or "*".
C6_FirstDeclared ==
    LET cs == env_config.choices
    IN (last.resolved # -1) =>
        /\ last.resolved \in 0 .. Len(cs)
        /\ \A j \in 1 .. Len(cs) :
              (j < last.resolved \/ last.resolved = 0) =>
                  cs[j].url # last.url /\ cs[j].url # Wildcard
        /\ last.resolved # 0 =>
              cs[last.resolved].url = last.url \/ cs[last.resolved].url = Wildcard

C6_Witness ==
    /\ last.resolved = 1
    /\ Len(env_config.choices) = 2
    /\ env_config.choices[1].url = Wildcard
    /\ env_config.choices[2].url = last.url

\* C7: with choices = [] or no entry matching the request URL or "*", a
\* cached document request is served the default-rewritten HTML and no
\* metadata record is appended.
C7_NoChoicePassthrough ==
    LET pre == ProcessHtml(task_kind, cache[last.url].content)
    IN (CacheHitDocument /\ env_config.hasChoices /\ ~pre.raised
            /\ ResolveChoice(last.url, env_config.choices) = 0) =>
        /\ last.body = pre.html
        /\ last.appended = 0

\* C8: with no "choices" key in the config, a cached document request is
\* served the output of task.process_html: the resolver does not run, no
\* intervention is applied and no metadata record is appended.
C8_NoChoicesKey ==
    LET pre == ProcessHtml(task_kind, cache[last.url].content)
    IN (CacheHitDocument /\ ~env_config.hasChoices /\ ~pre.raised) =>
        /\ last.kind = "fulfill"
        /\ last.body = pre.html
        /\ last.resolved = -1
        /\ last.applied = <<>>
        /\ last.appended = 0

C8_Witness ==
    /\ CacheHitDocument
    /\ ~env_config.hasChoices
    /\ task_kind = "NudgeLabShopTask"
    /\ last.url = "A"
    /\ last.body = Insert(RawPage("prodFull"), "rating")

\* C9: once teardown has run, the persisted log is a list with exactly one
\* record per intervention applied in the episode, in application order,
\* each with the request url and the function, timestamps non-decreasing.
C9_MetadataCompleteness ==
    torn =>
        /\ persisted.state = "list"
        /\ Len(persisted.list) = Len(episode_applied)
        /\ \A i \in 1 .. Len(persisted.list) :
              /\ persisted.list[i].url = episode_applied[i].url
              /\ persisted.list[i].function = episode_applied[i].function
        /\ \A i \in 1 .. Len(persisted.list) : \A j \in 1 .. Len(persisted.list) :
              i <= j => persisted.list[i].timestamp <= persisted.list[j].timestamp

\* C10: when the default rewrite or anything after it raises while a
\* cached document is processed, the handler still fulfills the request:
\* a warning is logged and the body is the cached HTML, unchanged.
C10_FallbackToCached ==
    LET pre == ProcessHtml(task_kind, cache[last.url].content)
    IN (CacheHitDocument /\ (pre.raised \/ last.raised)) =>
        /\ last.kind = "fulfill"
        /\ last.status = FulfillStatus
        /\ last.warned
        /\ last.body = cache[last.url].content

C10_Witness ==
    /\ CacheHitDocument
    /\ task_kind = "NudgeLabShopTask"
    /\ last.url = "B"
    /\ last.raised
    /\ last.warned
    /\ last.body = RawPage("prodBare")

\* Every function named by the config's choices resolves to a callable.
ConfigResolvable(cfg) ==
    \A i \in 1 .. Len(cfg.choices) :
        \A j \in 1 .. Len(cfg.choices[i].functions) :
            Resolvable(cfg.choices[i].functions[j])

\* C11: a choice whose module and name do not resolve to a callable is
\* detected when the episode starts and aborts it there, so no episode is
\* running, and no request is being answered, under such a config.
C11_UnresolvableAbortsAtStart ==
    (phase = "running") => ConfigResolvable(env_config)

\* C12: once a task has been torn down, its metadata list has been written
\* to nudge_metadata.yaml exactly once, and the file holds that list.
C12_WrittenExactlyOnce ==
    torn =>
        /\ writes = 1
        /\ persisted.state = "list"
        /\ (phase = "failed" => persisted.list = nudge_metadata.list)

\* C13: the route handler never writes the cache: after any sequence of
\* intercepted requests every entry is the one the episode started with,
\* and each cache-hit request starts from that raw page, also when the
\* body served for the same URL before was a rewritten one.
C13_CacheReadOnly ==
    /\ cache = InitCache
    /\ (CacheHitDocument /\ last.kind = "fulfill") =>
            last.cached = InitCache[last.url].content

C13_Witness ==
    /\ CacheHitDocument
    /\ last.repeat
    /\ last.url = "A"
    /\ task_kind = "NudgeLabShopTask"
    /\ last.body # last.cached
    /\ first.body # RawPage("prodFull")
    /\ cache["A"] = CacheFile(RawPage("prodFull"))

\* C19 as stated: a cache-hit document request is fulfilled with the status
\* and the headers of the original response, whatever that response was.
C19_OriginalStatusHeaders ==
    (CacheHitDocument /\ last.kind = "fulfill") =>
        \A o \in OriginResponses :
            last.status = o.status /\ last.headers = o.headers

\* C19 amended: a cache-hit document request is fulfilled with status 200
\* and exactly the two headers the handler sets (content-type text/html
\* with charset utf-8, cache-control no-cache), whatever the original
\* response carried; the body is the HTML process_html_content returned,
\* or the cached HTML when it raised.
C19_FixedStatusHeaders ==
    (CacheHitDocument /\ last.kind = "fulfill") =>
        /\ last.status = 200
        /\ last.headers = {"content-type: text/html; charset=utf-8",
                           "cache-control: no-cache"}
        /\ \E clk \in 0 .. MaxClock :
              \E r \in ProcessHtmlContent(last.cached, last.url, task_kind, env_config,
                                          [set |-> nudge_metadata.set, list |-> <<>>],
                                          clk) :
                  /\ r.raised = last.raised
                  /\ last.body = IF r.raised THEN last.cached ELSE r.html

C19_Witness ==
    /\ CacheHitDocument
    /\ last.url = "C"
    /\ task_kind = "NudgeLabShopTask"
    /\ last.status = FulfillStatus
    /\ last.headers = FulfillHeaders
    /\ last.body = Insert(RawPage("cat"), "rating")
    /\ \E o \in OriginResponses : o.headers # last.headers

\* C20: from construction until teardown the task owns a metadata list, so
\* an append never fails for lack of the list, and tearing the task down
\* never raises: an episode without interventions persists an empty list.
C20_TaskOwnsList ==
    has_task =>
        /\ nudge_metadata.set
        /\ phase # "failed"
        /\ (torn => persisted # [state |-> "truncated", list |-> <<>>])

\* C14: after the pre-caching pass every URL a config names in start_urls
\* or in a choice's url has a cache file under the key the live pipeline
\* looks up, so get_cached_content finds it.
C14_PrecacheCoversConfigs ==
    (inp.kind = "precache" /\ pc = "done") =>
        \A c \in inp.configs : \A u \in c.start_urls \cup c.choice_urls :
            DiskGet(disk, u).found

\* C15: cache_content(url, html) followed by get_cached_content(url)
\* returns exactly html, for every url and every html string.
C15_RoundTrip ==
    (inp.kind = "roundtrip" /\ pc = "got") =>
        out.content = [found |-> TRUE, text |-> inp.html]

\* C16: sanitize_url gives a URL one key, the same in the env and in the
\* pre-caching script, and gives two distinct URLs distinct keys, so the
\* content put for a URL is still what get returns for it after a put for
\* another URL.
C16_KeysCollisionFree ==
    (inp.kind = "keys") =>
        /\ SanitizeUrl(inp.url) = PrecacheSanitizeUrl(inp.url)
        /\ SanitizeUrl(inp.url) # SanitizeUrl(inp.other)
        /\ CachePath(inp.url) # CachePath(inp.other)
        /\ (pc = "got" => out.content = [found |-> TRUE, text |-> inp.html])

C16_Witness ==
    /\ inp.kind = "keys"
    /\ pc = "got"
    /\ inp.url = <<" ">>
    /\ inp.other = <<"+">>
    /\ SanitizeUrl(inp.url) = <<"+">>
    /\ SanitizeUrl(inp.other) = <<"%", "2", "B">>
    /\ Cardinality(disk) = 2
    /\ out.content.text = <<"x">>

\* The page type the priority order product, category, home, else OTHER
\* gives a page.
ExpectedPagetype(base) ==
    IF "product" \in Markers(base) THEN "PRODUCT"
    ELSE IF "category" \in Markers(base) THEN "CATEGORY"
    ELSE IF Title(base) = "One Stop Market" THEN "HOME"
    ELSE "OTHER"

\* C17: get_pagetype classifies by the priority order product, category,
\* home, else OTHER, a page without a marker being OTHER and not an error,
\* and the shop task's process_html picks its default rewrite by the same
\* order: the product, category or home rating, or the page unchanged.
C17_PriorityOrder ==
    (inp.kind = "classify" /\ pc = "classified") =>
        /\ out.pagetype = ExpectedPagetype(inp.page)
        /\ inp.task = "NudgeLabShopTask" =>
              out.processed =
                  CASE ExpectedPagetype(inp.page) = "PRODUCT" ->
                           ProductRating(RawPage(inp.page))
                    [] ExpectedPagetype(inp.page) = "CATEGORY" ->
                           CategoryRating(RawPage(inp.page))
                    [] ExpectedPagetype(inp.page) = "HOME" ->
                           HomeRating(RawPage(inp.page))
                    [] OTHER -> Returned(RawPage(inp.page), "str", "none")

\* C18: price(html, value=v) on a page with a price span sets the span's
\* text to "$" and v with two decimals, sets data-price-amount of the
\* price-wrapper, when the page has one, to v with two decimals, and
\* returns the modified HTML with an empty metadata dict.
C18_PriceTwoDecimals ==
    (inp.kind = "price" /\ pc = "priced" /\ inp.page.span.present) =>
        LET whole == inp.value \div 100
            frac  == inp.value % 100
            two   == Digits(whole) \o <<".">> \o
                        (IF frac < 10 THEN <<"0">> ELSE <<>>) \o Digits(frac)
        IN /\ ~out.result.raised
           /\ out.result.ret = "tuple"
           /\ out.result.meta = "{}"
           /\ out.result.html.span = Element(<<"$">> \o two)
           /\ Len(two) = Len(Digits(whole)) + 3
           /\ inp.page.wrapper.present => out.result.html.wrapper = Element(two)
           /\ ~inp.page.wrapper.present => out.result.html.wrapper = NoElement

C18_Witness ==
    /\ inp.kind = "price"
    /\ pc = "priced"
    /\ inp.value = 1999
    /\ inp.page.span = Element(<<"$", "9", ".", "9", "9">>)
    /\ inp.page.wrapper.present
    /\ out.result.html.span.text = <<"$", "1", "9", ".", "9", "9">>
    /\ out.result.html.wrapper.text = <<"1", "9", ".", "9", "9">>
    /\ out.result.meta = "{}"

\* Step a of the current reset() was executed before its step b.
StepBefore(a, b) ==
    \A i \in 1 .. Len(steps) : \A j \in 1 .. Len(steps) :
        (steps[i] = a /\ steps[j] = b) => i < j

C22_ExistingSkipped ==
    (inp.kind = "scrape" /\ inp.replace) =>
        \A i \in 1 .. out.from :
            /\ out.scraped[out.csv[i].path] = 0
            /\ \A j \in (out.from + 1) .. Len(out.csv) :
                  out.csv[j].path # out.csv[i].path

\* C29: within one run each product is scraped at most once and written
\* to the CSV at most once, also when workers of different categories list
\* it, whatever the interleaving of their checks and additions.
C29_AtMostOncePerRun ==
    (inp.kind = "scrape") =>
        /\ \A p \in Products : out.scraped[p] <= 1
        /\ \A i \in (out.from + 1) .. Len(out.csv) :
              \A j \in (out.from + 1) .. Len(out.csv) :
                  out.csv[i] = out.csv[j] => i = j

\* The sets of valid pairs within the neighborhood in which no product
\* belongs to two pairs.
Matchings(vp) ==
    {ms \in SUBSET vp : \A a \in ms : \A b \in ms : a # b => NoSharedProduct(a, b)}

\* C23: generate_dynamic_pairs returns pairs that are valid, within the
\* neighborhood and without a product in two of them, and as many of them
\* as any such set of pairs has.
C23_MaximumPairs ==
    (inp.kind = "pairs" /\ pc = "paired") =>
        LET sorted == SortByPrice(inp.data)
            vp     == ValidPairs(sorted, MaxRatingDiff100, inp.max_price_diff,
                                 inp.neighborhood)
            got    == {out.pairs[k] : k \in 1 .. Len(out.pairs)}
        IN /\ got \in Matchings(vp)
           /\ Cardinality(got) = Len(out.pairs)
           /\ \A ms \in Matchings(vp) : Cardinality(ms) <= Cardinality(got)

\* C24: for any table, generate_survey_data ends with files in which
\* every file holds exactly one row of each pair of the table and every
\* row of the table is in exactly one file.
C24_FullCoverage ==
    (inp.kind = "survey") =>
        /\ pc # "raised"
        /\ pc = "saved" =>
              /\ \A k \in 1 .. Len(out.files) : \A u \in UniquePairs(inp.df) :
                    Cardinality({r \in out.files[k] : r.pair = u}) = 1
              /\ \A r \in TableRows(inp.df) :
                    Cardinality({k \in 1 .. Len(out.files) : r \in out.files[k]}) = 1

\* C25: process_with_threading never ends in an exception: an experiment
\* that raises or times out is logged and skipped, and when the function
\* is done it has returned the DataFrame of every experiment that
\* completed.
C25_OthersNotLost ==
    (inp.kind = "collect") =>
        /\ pc # "raised"
        /\ pc = "returned" =>
              {out.dfs[k] : k \in 1 .. Len(out.dfs)} =
                  {e \in ExperimentDirs : inp.behaviour[e] = "ok"}

\* The previous run of the task exists and its summary_info.json records
\* neither an err_msg nor a stack_trace.
PreviousRunClean ==
    /\ inp.prev_exists
    /\ Len(inp.summary_info) = 1
    /\ inp.summary_info[1].err_msg = "None"
    /\ inp.summary_info[1].stack_trace = "None"

\* C26: with continue_from set, the task is skipped exactly when its
\* previous run exists and is clean, and in every other case main goes on
\* to run the task.
C26_SkipIffClean ==
    (inp.kind = "continue" /\ inp.continue_from /\ pc # "start") =>
        /\ pc = "skip" <=> PreviousRunClean
        /\ ~PreviousRunClean => pc \in {"run", "done"}

\* C28: under a config that save_configs generated with match_price on, a
\* document request served from the cache for a start URL of the pair has
\* the price intervention applied, also on the start URL whose nudge choice
\* is declared before its price choice.
C28_PriceApplied ==
    (/\ last.kind = "fulfill"
     /\ last.status = FulfillStatus
     /\ last.processed
     /\ \E i \in 1 .. Len(env_config.choices) :
            env_config.choices[i] = [url |-> last.url, functions |-> <<Fprice>>])
    => (/\ \E j \in 1 .. Len(last.applied) : last.applied[j] = Fprice
        /\ \E k \in 1 .. Len(last.body.ins) : last.body.ins[k] = "price")

\* The product is on the page: the first link with that href sits in a list
\* item that has a title element.
ProductOnPage(page, product) ==
    /\ \E i \in 1 .. Len(page) : page[i].href = product
    /\ LET i == CHOOSE h \in 1 .. Len(page) :
                    page[h].href = product /\
                    \A g \in 1 .. Len(page) : page[g].href = product => h <= g
       IN page[i].inItem /\ page[i].title

\* C30: category.subtitle and category.stock called with an explicit
\* product that is on the page return (modified_html, metadata) without
\* raising, with the span after the title of the item linking to that
\* product and the metadata naming that item; an item is drawn at random
\* only when product is None.
C30_ExplicitProduct ==
    (pc = "done" /\ inp.product # "none" /\ ProductOnPage(inp.page, inp.product))
    => (/\ ~out.raised
        /\ out.ret = "tuple"
        /\ \E i \in out.spans : inp.page[i].href = inp.product
        /\ out.product = inp.product)

====
